---- MODULE Spec2Model ----
(***************************************************************************)
(* SoundLab Pro (src/app.py): the signal-generation and effects pipeline.  *)
(*                                                                         *)
(* The script runs top to bottom once per request.  Its state is the three *)
(* names signal, left and right, the numpy arrays they are bound to, the   *)
(* widget values (frequencies, check boxes, sliders) and the position in   *)
(* the script.  numpy arrays are heap objects: `left = right = signal`     *)
(* binds three names to ONE array, an augmented assignment (`*=`, `+=`,    *)
(* `/=`) writes into the array a name is bound to, and a plain assignment  *)
(* (`left = ...`) binds the name to a fresh array.  The model keeps the    *)
(* heap (bufs) and the bindings (leftId, rightId) apart for that reason.   *)
(*                                                                         *)
(* Numbers: float64 amplitudes are fixed-point integers, Unit per 1.0;     *)
(* products and quotients are truncated toward zero.  np.sin, np.exp and   *)
(* np.tanh are computed by rational formulas (Sin, Decay, Tanh below).     *)
(* The time base is scaled down: SampleRate samples per second and N       *)
(* samples per session instead of 44100 and 44100*60*minutes.              *)
(***************************************************************************)
EXTENDS Integers, Sequences, FiniteSets

\* ------------------------------------------------------------------ bounds
\* fixed-point resolution: the integer that stands for the amplitude 1.0
Unit == 1000
\* samples per second (44100 in the program)
SampleRate == 9
\* samples per session, len(t)
N == 6
\* at most this many of the 13 check boxes are ticked in one request
MaxEnabled == 3
\* length of the moving-average kernel (100 in the program)
LowpassWindow == 3
\* samples filtfilt pads on each side (3 * max(len(a), len(b)) in scipy)
PadLen == 2

\* ------------------------------------------------------- program constants
ChorusShift == 200
FlangerShift == 400
TremoloRate == 5
PcmScale == 32767
\* butter(1, 0.01, btype='high'): b = [HpB, -HpB], a = [1, -HpA], in 1/1000
HpB == 985
HpA == 969

\* slider values a request may carry
FreqSet == {1, 3}
Freq3Set == {2}
AmRates == {0, 2}
PulseRates == {1, 2}
BBDiffs == {0, 1}
\* values one draw of np.random.normal(0, 0.03) may take: +-0.03
NoiseVals == {-((3 * Unit) \div 100), (3 * Unit) \div 100}

Idx == 1..N
Fx == 1..13

VARIABLES freq1, freq2, freq3, fx_enabled, sliders,
          bufs, leftId, rightId, noise, max_val, output, pc

vars == <<freq1, freq2, freq3, fx_enabled, sliders,
          bufs, leftId, rightId, noise, max_val, output, pc>>

\* --------------------------------------------------------------- arithmetic
Abs(a) == IF a < 0 THEN -a ELSE a

Max(a, b) == IF a >= b THEN a ELSE b

Sign(a) == IF a > 0 THEN 1 ELSE IF a < 0 THEN -1 ELSE 0

\* float division and float -> int conversion round toward zero here
TDiv(a, b) == IF a >= 0 THEN a \div b ELSE -((-a) \div b)

\* product of two amplitudes
Mul(a, b) == TDiv(a * b, Unit)

\* np.sin(2 * pi * n / d) for a phase of n/d cycles, n >= 0, d > 0
\* (Bhaskara's rational formula on each half cycle; exact at 0, 1/4, 1/2, 3/4)
Sin(n, d) ==
    LET r == n % d
        a == IF 2 * r < d THEN 2 * r ELSE 2 * r - d
        h == TDiv(16 * Unit * a * (d - a), 5 * d * d - 4 * a * (d - a))
    IN IF 2 * r < d THEN h ELSE -h

\* np.sin(2 * np.pi * f * t)[i], t[i] = (i-1)/SampleRate
Tone(f, i) == Sin(f * (i - 1), SampleRate)

\* np.max(np.abs(x))
RECURSIVE PeakFrom(_, _)
PeakFrom(x, k) == IF k > Len(x) THEN 0 ELSE Max(Abs(x[k]), PeakFrom(x, k + 1))

Peak(x) == PeakFrom(x, 1)

\* np.roll(x, k)
Roll(x, k) == [i \in 1..Len(x) |-> x[((i - 1 - k) % Len(x)) + 1]]

Reverse(x) == [i \in 1..Len(x) |-> x[Len(x) + 1 - i]]

RECURSIVE SumTo(_, _)
SumTo(f, k) == IF k = 0 THEN 0 ELSE f[k] + SumTo(f, k - 1)

\* ------------------------------------------------------------ base signal
\* signal = (tone1 + tone2 + tone3) / 3
Base(f1, f2, f3) ==
    [i \in Idx |-> TDiv(Tone(f1, i) + Tone(f2, i) + Tone(f3, i), 3)]

\* ------------------------------------------------------- the three names
signal == bufs[0]

left == bufs[leftId]

right == bufs[rightId]

\* an augmented assignment writes into the array the name is bound to
InPlace(h, id, val) == [h EXCEPT ![id] = val]

\* ------------------------------------------------- stage transforms (pure)
\* am = 0.5 * (1 + sin(2 pi am_rate t)); signal *= am
AmplitudeModulation(x, rate) ==
    [i \in Idx |-> Mul(x[i], TDiv(Unit + Tone(rate, i), 2))]

\* decay = np.exp(-0.0005 * np.arange(len(signal))), first-order, rounded down
Decay(i) == Unit - TDiv((i + 1) * Unit, 2000)

\* signal += np.convolve(signal, decay, mode='full')[:len(signal)] * 0.5
Reverb(x) ==
    [k \in Idx |->
        x[k] + TDiv(TDiv(SumTo([j \in 1..k |-> x[j] * Decay(k - j)], k), Unit), 2)]

\* delay = int(0.3 * sample_rate)
EchoDelay == (3 * SampleRate) \div 10

\* echo_sig[delay:] = signal[:-delay]; signal += 0.5 * echo_sig
Echo(x) ==
    [i \in Idx |-> x[i] + TDiv(IF i > EchoDelay THEN x[i - EchoDelay] ELSE 0, 2)]

\* pan = np.sin(2 * np.pi * 0.25 * t)
Pan(i) == Sin(i - 1, 4 * SampleRate)

PanLeft(x) == [i \in Idx |-> Mul(Unit - Pan(i), x[i])]

PanRight(x) == [i \in Idx |-> Mul(Unit + Pan(i), x[i])]

\* faulty variant of Pulse: the gate without np.sign, a sine envelope
PulseSoft(rate, i) == TDiv(Unit + Tone(rate, i), 2)

\* pulse = 0.5 * (1 + np.sign(np.sin(2 * np.pi * pulse_rate * t)))
Pulse(rate, i) == TDiv(Unit * (1 + Sign(Tone(rate, i))), 2)

Gate(x, rate) == [i \in Idx |-> Mul(x[i], Pulse(rate, i))]

BinauralLeft(f1) == [i \in Idx |-> Tone(f1, i)]

BinauralRight(f1, diff) == [i \in Idx |-> Tone(f1 + diff, i)]

\* x += 0.02 * np.roll(x, 200)
Chorus(x) ==
    LET r == Roll(x, ChorusShift) IN [i \in Idx |-> x[i] + TDiv(2 * r[i], 100)]

\* flanged = np.roll(signal, 400) * 0.5
Flanged(x) == LET r == Roll(x, FlangerShift) IN [i \in Idx |-> TDiv(r[i], 2)]

AddV(x, y) == [i \in Idx |-> x[i] + y[i]]

\* trem = 0.5 * (1 + np.sin(2 * np.pi * 5 * t)); x *= trem
Tremolo(x) ==
    [i \in Idx |-> Mul(x[i], TDiv(Unit + Tone(TremoloRate, i), 2))]

\* np.convolve(x, np.ones(W) / W, mode="same"), len(x) >= W
Lowpass(x) ==
    LET c == (LowpassWindow - 1) \div 2
        In(i, j) == (i + c - j >= 0) /\ (i + c - j <= LowpassWindow - 1)
    IN [i \in Idx |->
          TDiv(SumTo([j \in Idx |-> IF In(i, j) THEN x[j] ELSE 0], N),
               LowpassWindow)]

\* scipy.signal.lfilter(b, a, x, zi=z): y = b0 x + z; z = b1 x - a1 y
RECURSIVE LFilterFrom(_, _, _, _)
LFilterFrom(x, k, z, acc) ==
    IF k > Len(x) THEN acc
    ELSE LET y == TDiv(HpB * x[k], 1000) + z
         IN LFilterFrom(x, k + 1,
                        TDiv(HpA * y, 1000) - TDiv(HpB * x[k], 1000),
                        Append(acc, y))

\* lfilter with the steady-state initial condition lfilter_zi(b, a) * x0,
\* which is -b0 * x0 for a first-order high-pass
LFilter(x, x0) == LFilterFrom(x, 1, -TDiv(HpB * x0, 1000), << >>)

\* scipy.signal._arraytools.odd_ext(x, PadLen)
OddExt(x) ==
    [i \in 1..(Len(x) + 2 * PadLen) |->
        IF i <= PadLen THEN 2 * x[1] - x[PadLen + 2 - i]
        ELSE IF i <= PadLen + Len(x) THEN x[i - PadLen]
        ELSE 2 * x[Len(x)] - x[2 * Len(x) + PadLen - i]]

\* filtfilt(b, a, x): forward, backward, strip the padding
Highpass(x) ==
    LET ext == OddExt(x)
        fwd == LFilter(ext, ext[1])
        bwd == LFilter(Reverse(fwd), fwd[Len(fwd)])
        y == Reverse(bwd)
    IN [i \in Idx |-> y[i + PadLen]]

\* np.tanh(y): Pade form y (27 + y^2) / (27 + 9 y^2), saturating from |y| = 3
Tanh(y) ==
    IF y >= 3 * Unit THEN Unit
    ELSE IF y <= -(3 * Unit) THEN -Unit
    ELSE LET q == TDiv(y * y, Unit)
         IN TDiv(y * (27 * Unit + q), 27 * Unit + 9 * q)

\* np.tanh(x * 5)
Distortion(x) == [i \in Idx |-> Tanh(5 * x[i])]

\* x /= max_val
DivV(x, m) == [i \in 1..Len(x) |-> TDiv(x[i] * Unit, m)]

\* ------------------------------------------------------------------- Init
\* the state after line 29: widgets read, base signal built, and
\* left = right = signal binding all three names to array 0
Init ==
    /\ freq1 \in FreqSet
    /\ freq2 \in FreqSet
    /\ freq3 \in Freq3Set
    /\ fx_enabled \in {e \in [Fx -> BOOLEAN] :
                         Cardinality({k \in Fx : e[k]}) <= MaxEnabled}
    /\ sliders \in [am_rate : AmRates, pulse_rate : PulseRates, bb_diff : BBDiffs]
    /\ bufs = [id \in 0..2 |-> IF id = 0 THEN Base(freq1, freq2, freq3) ELSE << >>]
    /\ leftId = 0
    /\ rightId = 0
    /\ noise = << >>
    /\ max_val = 0
    /\ output = << >>
    /\ pc = 1

Params == <<freq1, freq2, freq3, fx_enabled, sliders>>

\* ------------------------------------------------------------ the 13 stages
\* line 64-66
Stage1 ==
    /\ pc = 1
    /\ bufs' = IF fx_enabled[1] /\ sliders.am_rate > 0
               THEN InPlace(bufs, 0, AmplitudeModulation(signal, sliders.am_rate))
               ELSE bufs
    /\ pc' = 2
    /\ UNCHANGED <<Params, leftId, rightId, noise, max_val, output>>

\* line 68-70
Stage2 ==
    /\ pc = 2
    /\ bufs' = IF fx_enabled[2] THEN InPlace(bufs, 0, Reverb(signal)) ELSE bufs
    /\ pc' = 3
    /\ UNCHANGED <<Params, leftId, rightId, noise, max_val, output>>

\* line 72-76
Stage3 ==
    /\ pc = 3
    /\ bufs' = IF fx_enabled[3] THEN InPlace(bufs, 0, Echo(signal)) ELSE bufs
    /\ pc' = 4
    /\ UNCHANGED <<Params, leftId, rightId, noise, max_val, output>>

\* a plain assignment to left and right: two fresh arrays, names rebound
Rebind(l, r) ==
    /\ bufs' = [bufs EXCEPT ![1] = l, ![2] = r]
    /\ leftId' = 1
    /\ rightId' = 2

\* an augmented assignment to left, then one to right: the first has written
\* its array (heap h1 holds l) when the second reads the array right is bound to
AugmentLeft(l) == InPlace(bufs, leftId, l)

AugmentRight(h1, r) ==
    /\ bufs' = InPlace(h1, rightId, r)
    /\ UNCHANGED <<leftId, rightId>>

Skip == UNCHANGED <<bufs, leftId, rightId>>

\* faulty variant of Stage4: panning written into the arrays left and right are
\* bound to (left *= 1 - pan; right *= 1 + pan) instead of rebinding them
Stage4InPlace ==
    /\ pc = 4
    /\ IF fx_enabled[4]
       THEN LET h1 == AugmentLeft(PanLeft(left))
            IN AugmentRight(h1, PanRight(h1[rightId]))
       ELSE Skip
    /\ pc' = 5
    /\ UNCHANGED <<Params, noise, max_val, output>>

\* line 78-81
Stage4 ==
    /\ pc = 4
    /\ IF fx_enabled[4] THEN Rebind(PanLeft(signal), PanRight(signal)) ELSE Skip
    /\ pc' = 5
    /\ UNCHANGED <<Params, noise, max_val, output>>

\* line 83-86
Stage5 ==
    /\ pc = 5
    /\ IF fx_enabled[5]
       THEN LET h1 == AugmentLeft(Gate(left, sliders.pulse_rate))
            IN AugmentRight(h1, Gate(h1[rightId], sliders.pulse_rate))
       ELSE Skip
    /\ pc' = 6
    /\ UNCHANGED <<Params, noise, max_val, output>>

\* faulty variant of Stage6: the two sines are mixed onto the current left and right
\* (left = left + sin(...)) instead of replacing them
Stage6Mix ==
    /\ pc = 6
    /\ IF fx_enabled[6]
       THEN Rebind(AddV(left, BinauralLeft(freq1)),
                   AddV(right, BinauralRight(freq1, sliders.bb_diff)))
       ELSE Skip
    /\ pc' = 7
    /\ UNCHANGED <<Params, noise, max_val, output>>

\* line 88-90
Stage6 ==
    /\ pc = 6
    /\ IF fx_enabled[6]
       THEN Rebind(BinauralLeft(freq1), BinauralRight(freq1, sliders.bb_diff))
       ELSE Skip
    /\ pc' = 7
    /\ UNCHANGED <<Params, noise, max_val, output>>

\* line 92-94
Stage7 ==
    /\ pc = 7
    /\ IF fx_enabled[7]
       THEN LET h1 == AugmentLeft(Chorus(left))
            IN AugmentRight(h1, Chorus(h1[rightId]))
       ELSE Skip
    /\ pc' = 8
    /\ UNCHANGED <<Params, noise, max_val, output>>

\* line 96-99: flanged is computed once, before either channel is written
Stage8 ==
    /\ pc = 8
    /\ IF fx_enabled[8]
       THEN LET flanged == Flanged(signal)
                h1 == AugmentLeft(AddV(left, flanged))
            IN AugmentRight(h1, AddV(h1[rightId], flanged))
       ELSE Skip
    /\ pc' = 9
    /\ UNCHANGED <<Params, noise, max_val, output>>

\* line 101-104
Stage9 ==
    /\ pc = 9
    /\ IF fx_enabled[9]
       THEN LET h1 == AugmentLeft(Tremolo(left))
            IN AugmentRight(h1, Tremolo(h1[rightId]))
       ELSE Skip
    /\ pc' = 10
    /\ UNCHANGED <<Params, noise, max_val, output>>

\* line 106-109
Stage10 ==
    /\ pc = 10
    /\ IF fx_enabled[10] THEN Rebind(Lowpass(left), Lowpass(right)) ELSE Skip
    /\ pc' = 11
    /\ UNCHANGED <<Params, noise, max_val, output>>

\* line 111-114
Stage11 ==
    /\ pc = 11
    /\ IF fx_enabled[11] THEN Rebind(Highpass(left), Highpass(right)) ELSE Skip
    /\ pc' = 12
    /\ UNCHANGED <<Params, noise, max_val, output>>

\* line 116-118
Stage12 ==
    /\ pc = 12
    /\ IF fx_enabled[12] THEN Rebind(Distortion(left), Distortion(right)) ELSE Skip
    /\ pc' = 13
    /\ UNCHANGED <<Params, noise, max_val, output>>

\* the arrays np.random.normal(0, 0.03, size=t.shape) may return
NoiseDraws ==
    {[i \in Idx |-> IF i % 2 = 1 THEN a ELSE b] : a \in NoiseVals, b \in NoiseVals}

\* faulty variant of Stage13: a second array is drawn for the right channel
Stage13TwoDraws ==
    /\ pc = 13
    /\ IF fx_enabled[13]
       THEN \E draw \in NoiseDraws, draw2 \in NoiseDraws :
              /\ noise' = draw
              /\ LET h1 == AugmentLeft(AddV(left, draw))
                 IN AugmentRight(h1, AddV(h1[rightId], draw2))
       ELSE Skip /\ UNCHANGED noise
    /\ pc' = 14
    /\ UNCHANGED <<Params, max_val, output>>

\* line 120-123: one array is drawn and added to left, then to right
Stage13 ==
    /\ pc = 13
    /\ IF fx_enabled[13]
       THEN \E draw \in NoiseDraws :
              /\ noise' = draw
              /\ LET h1 == AugmentLeft(AddV(left, draw))
                 IN AugmentRight(h1, AddV(h1[rightId], draw))
       ELSE Skip /\ UNCHANGED noise
    /\ pc' = 14
    /\ UNCHANGED <<Params, max_val, output>>

\* ------------------------------------------------------------- Normalizer
\* faulty variant of Normalize: the max_val > 0 guard dropped; numpy then computes
\* 0/0 = nan for every sample of a silent buffer (a value outside the
\* amplitude range stands for nan)
NormalizeNoGuard ==
    /\ pc = 14
    /\ max_val' = Max(Peak(left), Peak(right))
    /\ LET nan == [i \in Idx |-> -(Unit * Unit) - 1]
           h1 == AugmentLeft(IF max_val' > 0 THEN DivV(left, max_val') ELSE nan)
       IN AugmentRight(h1, IF max_val' > 0 THEN DivV(h1[rightId], max_val') ELSE nan)
    /\ pc' = 15
    /\ UNCHANGED <<Params, noise, output>>

\* line 126-129
Normalize ==
    /\ pc = 14
    /\ max_val' = Max(Peak(left), Peak(right))
    /\ IF max_val' > 0
       THEN LET h1 == AugmentLeft(DivV(left, max_val'))
            IN AugmentRight(h1, DivV(h1[rightId], max_val'))
       ELSE Skip
    /\ pc' = 15
    /\ UNCHANGED <<Params, noise, output>>

\* -------------------------------------------------------------- PCM encoder
\* faulty variant of Scaled: x * 32767 rounded to the nearest integer
ScaledRound(x) ==
    LET q == TDiv(x, Unit)
        r == x - q * Unit
    IN q * PcmScale + TDiv(2 * r * PcmScale + Sign(r) * Unit, 2 * Unit)

\* the float64 -> int16 conversion of x * 32767: the fraction is dropped
Scaled(x) ==
    LET q == TDiv(x, Unit)
        r == x - q * Unit
    IN q * PcmScale + TDiv(r * PcmScale, Unit)

InInt16(v) == v >= -32768 /\ v <= 32767

\* a value outside int16 is undefined in the C cast numpy performs: builds
\* either keep the low 16 bits or clamp
ToInt16(x, mode) ==
    LET v == Scaled(x)
    IN IF InInt16(v) THEN v
       ELSE IF mode = "wrap" THEN ((v + 32768) % 65536) - 32768
       ELSE IF v > 0 THEN 32767 ELSE -32768

\* line 152-153: stereo = np.stack((left, right), axis=-1); np.int16(stereo * 32767)
Encode ==
    /\ pc = 15
    /\ \E mode \in {"wrap", "clamp"} :
         output' = [i \in 1..Len(left) |-> <<ToInt16(left[i], mode), ToInt16(right[i], mode)>>]
    /\ pc' = 16
    /\ UNCHANGED <<Params, bufs, leftId, rightId, noise, max_val>>

Next ==
    \/ Stage1 \/ Stage2 \/ Stage3 \/ Stage4 \/ Stage5 \/ Stage6 \/ Stage7
    \/ Stage8 \/ Stage9 \/ Stage10 \/ Stage11 \/ Stage12 \/ Stage13
    \/ Normalize \/ Encode

Spec == Init /\ [][Next]_vars

\* ------------------------------------------- the Normalizer and encoder alone
\* buffers a caller may inject: silence, or one sample set to a test amplitude
InjectVals == {-(Unit \div 2), Unit \div 4, Unit}

Injected ==
    {[i \in Idx |-> 0]} \cup
    {[i \in Idx |-> IF i = k THEN v ELSE 0] : k \in Idx, v \in InjectVals}

\* the state at line 126 with every effect disabled and the buffers injected:
\* either one array under all three names, or left and right on their own
InitNorm ==
    /\ freq1 \in FreqSet
    /\ freq2 \in FreqSet
    /\ freq3 \in Freq3Set
    /\ fx_enabled = [k \in Fx |-> FALSE]
    /\ sliders = [am_rate |-> 0, pulse_rate |-> 1, bb_diff |-> 0]
    /\ \/ /\ leftId = 0
          /\ rightId = 0
          /\ \E x \in Injected : bufs = [id \in 0..2 |-> IF id = 0 THEN x ELSE << >>]
       \/ /\ leftId = 1
          /\ rightId = 2
          /\ \E l \in Injected, r \in Injected :
                bufs = [id \in 0..2 |->
                          IF id = 1 THEN l
                          ELSE IF id = 2 THEN r
                          ELSE Base(freq1, freq2, freq3)]
    /\ noise = << >>
    /\ max_val = 0
    /\ output = << >>
    /\ pc = 14

NextNorm == Normalize \/ Encode

SpecNorm == InitNorm /\ [][NextNorm]_vars

\* ------------------------------------------------------------------ claims
Zero == [i \in Idx |-> 0]

\* the mono signal after stages 1-3, computed from the request alone
Mono3 ==
    LET b == Base(freq1, freq2, freq3)
        a == IF fx_enabled[1] /\ sliders.am_rate > 0
             THEN AmplitudeModulation(b, sliders.am_rate) ELSE b
        r == IF fx_enabled[2] THEN Reverb(a) ELSE a
    IN IF fx_enabled[3] THEN Echo(r) ELSE r

NoneEnabled(S) == \A k \in S : ~fx_enabled[k]

OnlyEnabled(k) == fx_enabled[k] /\ NoneEnabled(Fx \ {k})

\* C1: whenever the pre-normalization output is not silent, after the
\* Normalizer every sample of left and right lies in [-1, 1] and the largest
\* absolute sample over both channels is exactly 1.
C1_NormalizedToUnitPeak ==
    (pc >= 15 /\ max_val > 0) =>
        /\ \A i \in Idx : Abs(left[i]) <= Unit /\ Abs(right[i]) <= Unit
        /\ Max(Peak(left), Peak(right)) = Unit

\* C2: once stage 3 is over, mono (signal) is what stages 1-3 made of the
\* base signal and no later stage nor the Normalizer changes it; in
\* particular that is the mono Flanger reads.
C2_MonoOnlyChangedByStages1to3 ==
    (pc >= 4) => signal = Mono3

\* C3: with Stereo Panning and Flanger both enabled, panning sets
\* left = (1-pan)*mono and right = (1+pan)*mono without touching mono, and
\* Flanger adds rotate(mono, 400) * 0.5, mono as it stood after Echo, to the
\* left and right it finds, again without touching mono.
C3_FlangerReadsMonoAfterEcho ==
    [][ /\ (pc = 4 /\ fx_enabled[4] /\ fx_enabled[8]) =>
              /\ left' = PanLeft(Mono3)
              /\ right' = PanRight(Mono3)
              /\ signal' = Mono3
        /\ (pc = 8 /\ fx_enabled[4] /\ fx_enabled[8]) =>
              /\ signal = Mono3
              /\ left' = AddV(left, Flanged(Mono3))
              /\ right' = AddV(right, Flanged(Mono3))
              /\ signal' = Mono3 ]_vars

\* C3 witness: Echo, Panning and Flanger ran, nothing between Panning and
\* Flanger, and the flanger term is not silent
C3_Witness ==
    /\ pc = 9
    /\ fx_enabled[3] /\ fx_enabled[4] /\ fx_enabled[8]
    /\ Flanged(Mono3) # Zero
    /\ left # right
    /\ left = AddV(PanLeft(Mono3), Flanged(Mono3))
    /\ right = AddV(PanRight(Mono3), Flanged(Mono3))

\* C4 (as stated): when the Noise Layer is about to run, it can add to
\* left[i] an amount different from the one it adds to right[i], for some i.
C4_IndependentDraws ==
    (pc = 13 /\ fx_enabled[13]) =>
        ENABLED (Stage13 /\ \E i \in Idx : left'[i] - left[i] # right'[i] - right[i])

\* C4 (amended): the Noise Layer draws one array and adds it to both
\* channels: for every sample i the amount added to left[i] equals the amount
\* added to right[i].
C4_SameDrawBothChannels ==
    [][ (pc = 13 /\ fx_enabled[13]) =>
            /\ noise' \in NoiseDraws
            /\ \A i \in Idx : left'[i] - left[i] = right'[i] - right[i]
            /\ (leftId # rightId) =>
                  \A i \in Idx : left'[i] - left[i] = noise'[i] ]_vars

\* C4 witness: the Noise Layer ran on separate left and right arrays with a
\* draw that is not constant
C4_Witness ==
    /\ pc = 14
    /\ fx_enabled[13]
    /\ leftId # rightId
    /\ noise # << >>
    /\ \E i, j \in Idx : noise[i] # noise[j]

\* C5: with Isochronic Pulses enabled and no later effect enabled, the final
\* left[i] and right[i] are exactly 0 at every i where
\* sin(2*pi*pulse_rate*t[i]) < 0, with or without Stereo Panning.
C5_GateZeroOnNegativeHalfCycle ==
    (pc >= 15 /\ fx_enabled[5] /\ NoneEnabled(6..13)) =>
        \A i \in Idx :
            Tone(sliders.pulse_rate, i) < 0 => (left[i] = 0 /\ right[i] = 0)

\* C5 witness: a finished run with Panning and Pulses, a gated sample and an
\* audible one
C5_Witness ==
    /\ pc = 16
    /\ fx_enabled[4] /\ fx_enabled[5] /\ NoneEnabled(6..13)
    /\ \E i \in Idx : Tone(sliders.pulse_rate, i) < 0 /\ Mono3[i] # 0
    /\ \E j \in Idx : left[j] # 0 /\ right[j] # 0

\* the output of a Binaural-Beats-only run as a function of freq1 and diff
BinauralOutput(f1, diff) ==
    LET l == BinauralLeft(f1)
        r == BinauralRight(f1, diff)
        m == Max(Peak(l), Peak(r))
    IN IF m > 0 THEN <<DivV(l, m), DivV(r, m)>> ELSE <<l, r>>

\* C6 (as stated): with Binaural Beats alone the output does not depend on
\* freq2 or freq3, right is a function of freq1 and diff, and left is a
\* function of freq1 alone: the same left whatever diff is.
C6_LeftByFreq1Alone ==
    (pc = 16 /\ OnlyEnabled(6)) =>
        /\ right = BinauralOutput(freq1, sliders.bb_diff)[2]
        /\ \A d \in BBDiffs : left = BinauralOutput(freq1, d)[1]

\* C6 (amended): with Binaural Beats alone the output does not depend on
\* freq2 or freq3: left and right are each a function of freq1 and diff alone
\* (the sines of freq1 and of freq1 + diff, both divided by their joint peak).
C6_OutputByFreq1AndDiff ==
    (pc = 16 /\ OnlyEnabled(6)) =>
        /\ left = BinauralOutput(freq1, sliders.bb_diff)[1]
        /\ right = BinauralOutput(freq1, sliders.bb_diff)[2]

\* C6 witness: a finished Binaural-only run whose base signal is not the
\* left sine, so that freq2 and freq3 had something to change
C6_Witness ==
    /\ pc = 16
    /\ OnlyEnabled(6)
    /\ freq2 # freq1
    /\ signal # BinauralLeft(freq1)
    /\ sliders.bb_diff > 0
    /\ left # right

\* v is x * 32767 with the fraction dropped (toward zero), |x| <= 1
IsTruncated(x, v) ==
    IF x >= 0
    THEN v >= 0 /\ v * Unit <= x * PcmScale /\ x * PcmScale < (v + 1) * Unit
    ELSE v <= 0 /\ v * Unit >= x * PcmScale /\ x * PcmScale > (v - 1) * Unit

\* v is an integer nearest to x * 32767, |x| <= 1
IsNearest(x, v) == 2 * Abs(x * PcmScale - v * Unit) <= Unit

InRange(x) == Abs(x) <= Unit

\* C7 (as stated): the encoder emits one (left, right) pair per sample, as
\* many pairs as the buffers have samples, and maps every sample x in [-1, 1]
\* to the integer nearest to x * 32767.
C7_EncodesByRounding ==
    (pc = 16) =>
        /\ Len(output) = Len(left)
        /\ \A i \in 1..Len(output) :
              /\ InRange(left[i]) => IsNearest(left[i], output[i][1])
              /\ InRange(right[i]) => IsNearest(right[i], output[i][2])

\* C7 (amended): the encoder emits one (left, right) pair per sample, as
\* many pairs as the buffers have samples, and maps every sample x in [-1, 1]
\* to x * 32767 truncated toward zero.
C7_EncodesByTruncation ==
    (pc = 16) =>
        /\ Len(output) = Len(left)
        /\ Len(output) = N
        /\ \A i \in 1..Len(output) :
              /\ InRange(left[i]) => IsTruncated(left[i], output[i][1])
              /\ InRange(right[i]) => IsTruncated(right[i], output[i][2])

\* C7 witness: an encoded frame whose two in-range samples differ and whose
\* left sample has a fraction of at least one half to drop
C7_Witness ==
    /\ pc = 16
    /\ \E i \in Idx :
          /\ InRange(left[i]) /\ InRange(right[i])
          /\ left[i] > 0
          /\ output[i][1] # output[i][2]
          /\ 2 * ((left[i] * PcmScale) % Unit) >= Unit

\* |out / 32767 - x| <= 1 / 32767; no int16 is within that of an |x| >= 2
WithinQuantum(x, out) ==
    Abs(x) < 2 * Unit /\ Abs(out * Unit - x * PcmScale) <= Unit

\* C8: every sample handed to the encoder is recovered from its 16-bit code
\* (divided by 32767) within 1/32767; no code wraps around.
C8_RoundTripWithinQuantum ==
    (pc = 16) =>
        \A i \in 1..Len(output) :
            /\ WithinQuantum(left[i], output[i][1])
            /\ WithinQuantum(right[i], output[i][2])

\* C9: when left and right are all zero as the Normalizer runs, it divides
\* nothing: both buffers stay as they are, all zero, and the script goes on.
C9_SilenceLeftUnchanged ==
    [][ (pc = 14 /\ Peak(left) = 0 /\ Peak(right) = 0) =>
            /\ max_val' = 0
            /\ bufs' = bufs
            /\ left' = Zero /\ right' = Zero
            /\ pc' = 15 ]_vars

\* C9 witness: the Normalizer has run on injected silence
C9_Witness ==
    /\ pc = 15
    /\ max_val = 0
    /\ left = Zero /\ right = Zero

\* what each left/right stage makes of one channel when applied once
Once(k, x) ==
    IF k = 5 THEN Gate(x, sliders.pulse_rate)
    ELSE IF k = 7 THEN Chorus(x)
    ELSE IF k = 8 THEN AddV(x, Flanged(x))
    ELSE IF k = 9 THEN Tremolo(x)
    ELSE AddV(x, noise)

\* C10: with Isochronic Pulses, Chorus, Flanger, Tremolo or Noise Layer as the
\* only enabled effect, the pre-normalization left and right both equal the
\* stage's transform applied once to the base signal.
C10_TransformAppliedOnce ==
    \A k \in {5, 7, 8, 9, 13} :
        (pc = 14 /\ OnlyEnabled(k)) =>
            /\ left = Once(k, Base(freq1, freq2, freq3))
            /\ right = Once(k, Base(freq1, freq2, freq3))

====
